---- MODULE Spec2Model ----
(***************************************************************************)
(* Model of the dataset-creation upload flow of                            *)
(* web/app/components/datasets/create/index.tsx: the DatasetUpdateForm     *)
(* state (fileList, the Ledger; the one-shot reconciliation flag) and the  *)
(* FileUploader handlers that mutate it (initialUpload, the batch loop     *)
(* uploadMultipleFiles, fileUpload's progress/success/failure callbacks,   *)
(* removeFile, handleConfluenceUrlSubmit, fetchUnusedFilesData) together   *)
(* with the render that re-synchronises fileListRef with fileList.         *)
(*                                                                         *)
(* FileUploader's props are bound as StepOne binds them:                   *)
(*   prepareFileList = onFileListUpdate = updateFileList,                  *)
(*   onFileUpdate = updateFile.                                            *)
(* setFiles is applied to fileList at once; what React defers is the       *)
(* render, and with it the effect that copies fileList into fileListRef.   *)
(* immer's produce returns the copy with one change; when the build leaves *)
(* immer's auto-freezing on (its default) every plain object of the result *)
(* is frozen as well, and a later assignment to such an object throws a    *)
(* TypeError (module code is strict). Both builds are modelled: the        *)
(* setting is fixed for a run, and cfg.autoFreeze records it from the      *)
(* first produce on whose outcome it bears.                                *)
(***************************************************************************)
EXTENDS Integers, Sequences, FiniteSets, TLC

\* ------------------------------------------------------------- bounds
MaxTransfers == 2     \* fileUpload calls created over one run
MaxNow == 2           \* values Date.now() takes
MaxBatchLimit == 2    \* largest batch_count_limit the server configures
MaxUploadLimit == 2   \* largest file_upload_limit the server configures
MaxUnused == 1        \* unused files on the server before the session
MaxSelect == 2        \* files of one selection or drop
MaxDeletes == 1       \* entries with a deleteFile call pending at one time
MaxOverlap == 2       \* removeFile invocations pending for one entry, where
                      \* the user is taken to repeat the click
ProgressTotal == 2    \* e.total of a progress event; e.loaded is in 1..e.total
MaxDepth == 2         \* directories nested in a dropped entry
MaxChildren == 2      \* entries of one directory
MaxRead == 2          \* entries one readEntries call returns at most

\* ------------------------------------------------------ program constants
MiB == 1048576
DefaultFileSizeLimit == 15

VARIABLES
    cfg,           \* fileUploadConfig, allowed_extensions, supportBatchUpload,
                   \* IS_CE_EDITION, the build's immer setting, how often
                   \* the user clicks the delete icon of one entry, and
                   \* whether progress events outlive their request
    now,           \* Date.now()
    step,          \* DatasetUpdateForm: step
    fetched,       \* DatasetUpdateForm: initialUnusedFilesFetched
    reconcile,     \* fetchUnusedFilesData: "idle" | "fetching" | "done"
    fileList,      \* DatasetUpdateForm: fileList (the Ledger)
    fileListRef,   \* FileUploader: fileListRef.current
    transfers,     \* one record per FileItem handed to uploadMultipleFiles
    calls,         \* one record per uploadMultipleFiles invocation
    deletes,       \* removeFile invocations suspended at `await deleteFile`
    remote,        \* the server: ids of stored unused files, next id
    confluenceLoading, \* FileUploader: the conversion request is pending
    uuids,         \* number of uuid4() values drawn
    trace,         \* whether this run records `last`
    probe,         \* the call of a pure function under study, NoProbe for none
    last           \* history: the notifications the last handler raised

vars == <<cfg, now, step, fetched, reconcile, fileList, fileListRef,
          transfers, calls, deletes, remote, confluenceLoading, uuids,
          trace, probe, last>>

\* ------------------------------------------------------------- tokens
Tok(kind, a, b) == [kind |-> kind, a |-> a, b |-> b]
NoTok == Tok("none", 0, 0)
\* `file${index}-${Date.now()}`
FileToken(index, t) == Tok("file", index, t)
\* uuid4(): the n-th value drawn, distinct from every other
UuidToken(n) == Tok("uuid", n, 0)
\* fileID: file.id of a file the server lists
RemoteToken(id) == Tok("remote", id, 0)

\* FileItem: fileID, file.id (0: the raw local file, no remote identifier),
\* progress, and obj: the transfer whose FileItem object this entry still is
\* (0 once an update has replaced the object by a copy).
Item(tok, id, progress, obj) ==
    [fileID |-> tok, id |-> id, progress |-> progress, obj |-> obj]

\* notify({ type, message }): the message by its key, and the count it
\* interpolates (0 when it interpolates none)
notify(type, message, count) ==
    [type |-> type, message |-> message, count |-> count]

Event(op, u, tok, notes) == [op |-> op, u |-> u, tok |-> tok, notes |-> notes]
\* the value a handler leaves in `last`: the notifications it raised
Note(ev) == IF trace THEN ev.notes ELSE last

Tokens(list) == {list[i].fileID : i \in DOMAIN list}

\* list.findIndex(item => item.fileID === tok), 1-based; 0 stands for -1
FindIndex(list, tok) ==
    IF \E i \in DOMAIN list : list[i].fileID = tok
    THEN CHOOSE i \in DOMAIN list :
             /\ list[i].fileID = tok
             /\ \A j \in 1..(i - 1) : list[j].fileID # tok
    ELSE 0

\* list.filter(item => item.fileID !== tok)
FilterOut(list, tok) == SelectSeq(list, LAMBDA e : e.fileID # tok)

\* updateFile(fileItem, progress, list): the list setFiles receives.
\* With targetIndex = -1 produce assigns draft[-1], which is no element.
updateFile(tok, progress, list) ==
    LET targetIndex == FindIndex(list, tok)
    IN  IF targetIndex = 0
        THEN list
        ELSE [list EXCEPT ![targetIndex] =
                 [@ EXCEPT !.progress = progress, !.obj = 0]]

\* ------------------------------------------------------------ validator
\* A File: the extension of its name (getFileType), its size in bytes and
\* its fileMetadata.
File(ext, size, fileMetadata) ==
    [ext |-> ext, size |-> size, fileMetadata |-> fileMetadata]
\* a File that carries no fileMetadata
NoMetadata == [upload_type |-> "", confluence_page_id |-> ""]

\* Candidate files of a selection or a drop.
Candidates ==
    {File("MD", DefaultFileSizeLimit * MiB, NoMetadata),
     File("exe", DefaultFileSizeLimit * MiB + 1, NoMetadata)}
\* supportFileTypesResponse.allowed_extensions
supportTypes == cfg.allowed_extensions
toLowerCase(s) ==
    CASE s \in {"MD", "Md"} -> "md" [] s = "PDF" -> "pdf" [] OTHER -> s
\* ACCEPTS = supportTypes.map(ext => `.${ext}`)
ACCEPTS == {<<".", ext>> : ext \in supportTypes}

isValidType(file) == <<".", toLowerCase(file.ext)>> \in ACCEPTS
isValidSize(file) == file.size <= cfg.file_size_limit * 1024 * 1024
isValid(file) == isValidType(file) /\ isValidSize(file)
\* the notifications isValid raises for one file, in order
isValidNotes(file) ==
    (IF isValidType(file) THEN <<>>
     ELSE <<notify("error", "validation.typeError", 0)>>)
        \o (IF isValidSize(file) THEN <<>>
            ELSE <<notify("error", "validation.size", 0)>>)

RECURSIVE FilterNotes(_)
\* the notifications of files.filter(isValid)
FilterNotes(files) ==
    IF files = <<>> THEN <<>>
    ELSE isValidNotes(Head(files)) \o FilterNotes(Tail(files))

\* files.slice(0, n)
Slice(files, n) == SubSeq(files, 1, IF n < Len(files) THEN n ELSE Len(files))

\* ------------------------------------------------------- batch scheduler
Settled(t) == t.status \in {"done", "failed"}
InFlight == {u \in DOMAIN transfers : transfers[u].status = "inflight"}

\* the transfers of the batch files.slice(start, end) of a call
BatchOf(call) == {call.first + k : k \in (call.start + 1)..call.end}

\* (mutant) the loop does not wait for the batch
uploadBatchFilesNotAwaited(trs, call) == TRUE

\* Promise.all(bFiles.map(fileUpload)) has resolved: fileUpload never
\* rejects, so this is when every transfer of the batch has settled
uploadBatchFilesResolved(trs, call) ==
    \A u \in BatchOf(call) : Settled(trs[u])

\* the FileItem objects of the produce result `result` that are still those
\* handed to uploadMultipleFiles and wait there to be assigned progress 0
Freezable(trs, result) ==
    {u \in DOMAIN trs :
        trs[u].status = "queued" /\ \E i \in DOMAIN result : result[i].obj = u}

\* the build's auto-freeze setting at a produce: the one this run has already
\* shown, either one when no produce has depended on it so far
AutoFreeze(trs, result) ==
    IF cfg.autoFreeze = "unobserved" /\ Freezable(trs, result) # {}
    THEN {"on", "off"}
    ELSE {cfg.autoFreeze}

\* produce(list, recipe) under the setting: with auto-freezing on, the plain
\* objects the result holds are frozen
Freeze(trs, result, setting) ==
    [u \in DOMAIN trs |->
        IF setting = "on" /\ u \in Freezable(trs, result)
        THEN [trs[u] EXCEPT !.frozen = TRUE]
        ELSE trs[u]]

\* bFiles.forEach(bf => (bf.progress = 0)) throws at the first frozen bf
Throws(trs, batch) == \E u \in batch : trs[u].frozen
\* the items of the batch assigned before that: all of them when none throws
Assigned(trs, batch) ==
    {u \in batch : \A v \in batch : v <= u => ~trs[v].frozen}

RECURSIVE uploadMultipleFiles(_, _)
\* the while loop of uploadMultipleFiles from call.start, as far as it runs
\* without suspending: a batch is cut and every item of it dispatched, and
\* the loop waits at `await uploadBatchFiles(bFiles)` until that resolves;
\* when uploadBatchFiles throws, the loop ends there (its promise rejects,
\* nobody handles it); when the batch cut is empty, `start = end` leaves
\* start where it was and the loop repeats that iteration for ever ("spin"),
\* each turn resumed from the microtask queue. marked: the objects assigned
\* progress 0 on the way.
uploadMultipleFiles(trs, call) ==
    IF call.start < call.length
    THEN LET batchCountLimit == cfg.batch_count_limit
             end == IF call.start + batchCountLimit > call.length
                    THEN call.length
                    ELSE call.start + batchCountLimit
             next == [call EXCEPT !.end = end, !.pc = "await"]
             sent == [u \in DOMAIN trs |->
                         IF u \in BatchOf(next)
                         THEN [trs[u] EXCEPT !.status = "inflight"]
                         ELSE trs[u]]
         IN  IF end = call.start
             THEN [call |-> [next EXCEPT !.pc = "spin"], transfers |-> trs,
                   marked |-> {}]
             ELSE IF Throws(trs, BatchOf(next))
             THEN [call |-> [next EXCEPT !.pc = "thrown"], transfers |-> trs,
                   marked |-> Assigned(trs, BatchOf(next))]
             ELSE IF uploadBatchFilesResolved(sent, next)
             THEN LET rest == uploadMultipleFiles(sent,
                                                  [next EXCEPT !.start = end])
                  IN  [rest EXCEPT !.marked = @ \cup BatchOf(next)]
             ELSE [call |-> next, transfers |-> sent,
                   marked |-> BatchOf(next)]
    ELSE [call |-> [call EXCEPT !.pc = "done"], transfers |-> trs,
          marked |-> {}]

\* the continuation of `await uploadBatchFiles(bFiles)`: start = end, and the
\* loop goes on; it runs in the microtasks of the handler that settled the
\* last transfer of the batch
Resume(trs, call) ==
    IF call.pc = "await" /\ uploadBatchFilesResolved(trs, call)
    THEN uploadMultipleFiles(trs, [call EXCEPT !.start = call.end])
    ELSE [call |-> call, transfers |-> trs, marked |-> {}]

\* the transfers a step starts: fileUpload is called for them
Dispatched(before, after) ==
    {u \in DOMAIN after :
        after[u].status = "inflight"
        /\ (u \notin DOMAIN before \/ before[u].status = "queued")}

\* bFiles.forEach(bf => (bf.progress = 0)): the FileItem objects of the
\* transfers us are assigned in place, in every list that still holds them
Mark(list, us) ==
    [i \in DOMAIN list |->
        IF list[i].obj \in us THEN [list[i] EXCEPT !.progress = 0] ELSE list[i]]

\* ----------------------------------------------------------------- Init
\* fileUploadConfig as the server configures it for batch upload (outside the
\* CE edition the total-item ceiling is enforced), and the build's immer
\* setting, which no produce has depended on yet
Configs ==
    {[supportBatchUpload |-> TRUE, file_size_limit |-> DefaultFileSizeLimit,
      batch_count_limit |-> b, file_upload_limit |-> MaxUploadLimit,
      IS_CE_EDITION |-> FALSE, autoFreeze |-> "unobserved",
      allowed_extensions |-> {"md", "pdf"}, overlap |-> 1,
      lateProgress |-> FALSE] :
        b \in 1..MaxBatchLimit}

\* no pure function is under study
NoProbe == [op |-> "none", arg |-> <<>>, done |-> TRUE, ret |-> <<>>]

\* the state after the first render of DatasetUpdateForm, under one of the
\* configurations configs, recording notifications or not, with one of the
\* calls probes under study
Start(configs, recording, probes) ==
    /\ cfg \in configs
    /\ now = 1
    /\ step = 1
    /\ fetched = FALSE
    /\ reconcile = "idle"
    /\ fileList = <<>>
    /\ fileListRef = <<>>
    /\ transfers = <<>>
    /\ calls = <<>>
    /\ deletes = <<>>
    /\ remote = [unused |-> 1..MaxUnused, next |-> MaxUnused + 1]
    /\ confluenceLoading = FALSE
    /\ uuids = 0
    /\ trace = recording
    /\ probe \in probes
    /\ last = <<>>

Init == Start(Configs, FALSE, {NoProbe})

\* No render is pending: FileUploader has been rendered with the current
\* fileList and its effect has copied it into fileListRef. A user's event
\* finds the component rendered; the callbacks of requests do not wait.
Rendered == fileListRef = fileList

\* A batch loop that spins keeps the microtask queue from ever emptying: no
\* task (an event, a callback of a request, a render) gets its turn again.
Starved == \E c \in DOMAIN calls : calls[c].pc = "spin"

\* a user's event is handled once the mount effects have run, on the
\* rendered component
Mounted == fetched /\ Rendered /\ ~Starved

\* const hideUpload = !supportBatchUpload && fileList.length > 0
hideUpload == ~cfg.supportBatchUpload /\ Len(fileList) > 0

\* --------------------------------------------------------------- render
\* DatasetUpdateForm re-renders after setFiles; FileUploader (rendered at
\* step 1 only) receives the new fileList and its effect runs:
\* fileListRef.current = [...fileList]
Render ==
    /\ step = 1 /\ ~Rendered /\ ~Starved
    /\ fileListRef' = fileList
    /\ last' = Note(Event("render", 0, NoTok, <<>>))
    /\ UNCHANGED <<cfg, now, step, fetched, reconcile, fileList, transfers,
                   calls, deletes, remote, confluenceLoading, uuids, trace, probe>>

\* ---------------------------------------------------------------- steps
\* No request of FileUploader is pending: every batch loop has ended, every
\* upload it started has settled, no deleteFile and no conversion is awaited.
Quiet ==
    /\ \A c \in DOMAIN calls : calls[c].pc \in {"done", "thrown"}
    /\ \A u \in DOMAIN transfers :
           Settled(transfers[u]) \/ calls[transfers[u].call].pc = "thrown"
    /\ deletes = <<>>
    /\ ~confluenceLoading

\* nextStep, the onStepChange of StepOne: setStep(step + 1). StepOne and its
\* FileUploader unmount. The model leaves step 1 when no request of the
\* uploader is pending, so that no callback outlives its FileUploader.
nextStep ==
    /\ Mounted /\ step = 1 /\ Quiet
    /\ step' = step + 1
    /\ last' = Note(Event("nextStep", 0, NoTok, <<>>))
    /\ UNCHANGED <<cfg, now, fetched, reconcile, fileList, fileListRef,
                   transfers, calls, deletes, remote, confluenceLoading,
                   uuids, trace, probe>>

\* changeStep(delta), the onStepChange of StepTwo: setStep(step + delta).
\* Back at step 1 a new FileUploader mounts, with fileListRef = useRef([]).
changeStep(delta) ==
    /\ step = 2 /\ ~Starved
    /\ step' = step + delta
    /\ fileListRef' = IF step + delta = 1 THEN <<>> ELSE fileListRef
    /\ last' = Note(Event("changeStep", 0, NoTok, <<>>))
    /\ UNCHANGED <<cfg, now, fetched, reconcile, fileList, transfers, calls,
                   deletes, remote, confluenceLoading, uuids, trace, probe>>

\* ----------------------------------------------------------- submission
\* The tail shared by initialUpload and handleConfluenceUrlSubmit: the new
\* FileItems, of the Files files under the tokens toks (a transfer keeps of
\* its File what fileUpload reads, the fileMetadata), are appended to
\* fileListRef.current, the list is handed to
\* prepareFileList and to the ref, and uploadMultipleFiles(files) runs up to
\* its first await.
Enqueue(files, toks, ev) ==
    LET first == Len(transfers)
        n == Len(toks)
        preparedFiles == [k \in 1..n |-> Item(toks[k], 0, -1, first + k)]
        newFiles == fileListRef \o preparedFiles
        queued == transfers \o
                  [k \in 1..n |-> [fileID |-> toks[k],
                                   fileMetadata |-> files[k].fileMetadata,
                                   call |-> Len(calls) + 1,
                                   status |-> "queued", id |-> 0,
                                   removed |-> FALSE, frozen |-> FALSE]]
        call == [first |-> first, length |-> n, start |-> 0, end |-> 0,
                 pc |-> "run"]
        r == uploadMultipleFiles(queued, call)
    IN  /\ fileList' = Mark(newFiles, r.marked)
        /\ fileListRef' = Mark(newFiles, r.marked)
        /\ transfers' = r.transfers
        /\ calls' = IF n = 0 THEN calls ELSE Append(calls, r.call)
        /\ last' = Note(ev)

initialUpload(files, op, notes) ==
    LET filesCountLimit == cfg.file_upload_limit
        toks == [k \in 1..Len(files) |-> FileToken(k - 1, now')]
    IN  IF Len(files) = 0
        THEN /\ last' = Note(Event(op, 0, NoTok, notes))
             /\ UNCHANGED <<fileList, fileListRef, transfers, calls>>
        ELSE IF Len(files) + Len(fileList) > filesCountLimit
                /\ ~cfg.IS_CE_EDITION
        THEN /\ last' = Note(Event(op, 0, NoTok, notes \o <<notify("error", "validation.filesNumber", 0)>>))
             /\ UNCHANGED <<fileList, fileListRef, transfers, calls>>
        ELSE Enqueue(files, toks, Event(op, 0, NoTok, notes))

Selections ==
    UNION {[1..n -> Candidates] : n \in 1..MaxSelect}

\* the clock at a submission: the time of the last one, or later
Clock(t) == t \in now..MaxNow /\ now' = t

\* history: the candidates of the last selection or drop, kept when the
\* run observes them
Offered(candidates) ==
    IF probe.op = "candidates" THEN [probe EXCEPT !.arg = candidates]
    ELSE probe

\* fileChangeHandle validating every candidate and cutting the valid ones
fileChangeHandleFilterFirst(selected, t) ==
    LET files == Slice(SelectSeq(selected, isValid), cfg.batch_count_limit)
    IN  /\ Mounted /\ step = 1 /\ ~hideUpload
        /\ Clock(t)
        /\ probe' = Offered(selected)
        /\ Len(transfers) + Len(files) <= MaxTransfers
        /\ initialUpload(files, "initialUpload", FilterNotes(selected))
        /\ UNCHANGED <<cfg, step, fetched, reconcile, deletes, remote,
                       confluenceLoading, uuids, trace>>

fileChangeHandle(selected, t) ==
    LET files == Slice(selected, cfg.batch_count_limit)
    IN  /\ Mounted /\ step = 1 /\ ~hideUpload
        /\ Clock(t)
        /\ probe' = Offered(selected)
        /\ Len(transfers) + Len(SelectSeq(files, isValid)) <= MaxTransfers
        /\ initialUpload(SelectSeq(files, isValid), "initialUpload",
                         FilterNotes(files))
        /\ UNCHANGED <<cfg, step, fetched, reconcile, deletes, remote,
                       confluenceLoading, uuids, trace>>

handleDrop(dropped, t) ==
    LET one == IF ~cfg.supportBatchUpload THEN Slice(dropped, 1) ELSE dropped
        files == Slice(one, cfg.batch_count_limit)
    IN  /\ Mounted /\ step = 1 /\ ~hideUpload
        /\ Clock(t)
        /\ probe' = Offered(dropped)
        /\ Len(transfers) + Len(SelectSeq(files, isValid)) <= MaxTransfers
        /\ initialUpload(SelectSeq(files, isValid), "initialUpload",
                         FilterNotes(files))
        /\ UNCHANGED <<cfg, step, fetched, reconcile, deletes, remote,
                       confluenceLoading, uuids, trace>>

\* ------------------------------------------------------ transfer worker
\* What follows a callback of transfer u that left the lists fl (setFiles,
\* the result of produce) and fr (the ref): when it settled the last transfer
\* of its batch, the batch loop of its call resumes with the next batch.
AfterCallback(u, trs, fl, fr, ev) ==
    \E setting \in AutoFreeze(trs, fl) :
        LET c == transfers[u].call
            r == Resume(Freeze(trs, fl, setting), calls[c])
        IN  /\ cfg' = [cfg EXCEPT !.autoFreeze = setting]
            /\ transfers' = r.transfers
            /\ calls' = [calls EXCEPT ![c] = r.call]
            /\ fileList' = Mark(fl, r.marked)
            /\ fileListRef' = Mark(fr, r.marked)
            /\ last' = Note(ev)

\* Math.floor(e.loaded / e.total * 100)
Percent(loaded, total) == (loaded * 100) \div total

\* upload() calls onprogress for transfer u: while the request is in flight
\* and, where progress events race with the completion, after its promise
\* has settled as well
Delivers(u) ==
    \/ transfers[u].status = "inflight"
    \/ cfg.lateProgress /\ Settled(transfers[u])

\* onProgress of fileUpload, for a computable progress event
onProgress(u, loaded) ==
    LET tok == transfers[u].fileID
        percent == Percent(loaded, ProgressTotal)
    IN  /\ Delivers(u) /\ ~Starved
        /\ fileList' = updateFile(tok, percent, fileListRef)
        /\ \E setting \in AutoFreeze(transfers, fileList') :
               /\ cfg' = [cfg EXCEPT !.autoFreeze = setting]
               /\ transfers' = Freeze(transfers, fileList', setting)
        /\ last' = Note(Event("progress", u, tok, <<>>))
        /\ UNCHANGED <<now, step, fetched, reconcile, fileListRef,
                       calls, deletes, remote, confluenceLoading,
                       uuids, trace, probe>>

\* upload(...).then: the server stored the file under a fresh identifier
uploadThen(u) ==
    LET tok == transfers[u].fileID
        id == remote.next
        completeFile == Item(tok, id, -1, 0)
        index == FindIndex(fileListRef, tok)
        ref == IF index = 0 THEN fileListRef
               ELSE [fileListRef EXCEPT ![index] = completeFile]
        trs == [transfers EXCEPT ![u].status = "done", ![u].id = id]
    IN  /\ transfers[u].status = "inflight" /\ ~Starved
        /\ remote' = [unused |-> remote.unused \cup {id}, next |-> id + 1]
        /\ AfterCallback(u, trs, updateFile(tok, 100, ref), ref,
                         Event("success", u, tok, <<>>))
        /\ UNCHANGED <<now, step, fetched, reconcile, deletes,
                       confluenceLoading, uuids, trace, probe>>

\* upload(...).catch: the transfer failed
uploadCatch(u) ==
    LET tok == transfers[u].fileID
        trs == [transfers EXCEPT ![u].status = "failed"]
    IN  /\ transfers[u].status = "inflight" /\ ~Starved
        /\ AfterCallback(u, trs, updateFile(tok, -2, fileListRef), fileListRef,
                         Event("failure", u, tok,
                               <<notify("error", "uploader.failed", 0)>>))
        /\ UNCHANGED <<now, step, fetched, reconcile, deletes, remote,
                       confluenceLoading, uuids, trace, probe>>

\* -------------------------------------------------------------- removal
\* the local part of removeFile: filter the ref, hand the list to
\* onFileListUpdate (history: the transfers of that token are marked removed)
RemoveLocal(tok) ==
    LET updatedFileList == FilterOut(fileListRef, tok)
    IN  /\ fileListRef' = updatedFileList
        /\ fileList' = updatedFileList
        /\ transfers' = [u \in DOMAIN transfers |->
                            IF transfers[u].fileID = tok /\ tok \in Tokens(fileList)
                            THEN [transfers[u] EXCEPT !.removed = TRUE]
                            ELSE transfers[u]]

\* the tokens removeFile is invoked with: those of the entries, and those of
\* entries submitted once and gone since
Removable ==
    Tokens(fileList) \cup {transfers[u].fileID : u \in DOMAIN transfers}

\* removeFile calling deleteFile for every item it finds, with or without a
\* remote identifier
removeFileAlwaysRemote(tok) ==
    LET index == FindIndex(fileListRef, tok)
        pending == {deletes[d].fileID : d \in DOMAIN deletes}
        overlap == {d \in DOMAIN deletes : deletes[d].fileID = tok}
    IN  /\ Mounted /\ step = 1
        /\ IF index # 0
           THEN /\ Cardinality(pending \cup {tok}) <= MaxDeletes
                /\ Cardinality(overlap) < cfg.overlap
                /\ deletes' = Append(deletes,
                                     [fileID |-> tok, id |-> fileListRef[index].id])
                /\ UNCHANGED <<fileList, fileListRef, transfers>>
           ELSE /\ RemoveLocal(tok)
                /\ UNCHANGED deletes
        /\ last' = Note(Event("removeFile", 0, tok, <<>>))
        /\ UNCHANGED <<cfg, now, step, fetched, reconcile, calls, remote,
                       confluenceLoading, uuids, trace, probe>>

\* removeFile(fileID), from the delete icon of a rendered entry or for a
\* token no entry carries any more, up to its await (all of it when the ref
\* holds no item of that token with a remote identifier)
removeFile(tok) ==
    LET index == FindIndex(fileListRef, tok)
        pending == {deletes[d].fileID : d \in DOMAIN deletes}
        overlap == {d \in DOMAIN deletes : deletes[d].fileID = tok}
    IN  /\ Mounted /\ step = 1
        /\ IF index # 0 /\ fileListRef[index].id # 0
           THEN /\ Cardinality(pending \cup {tok}) <= MaxDeletes
                /\ Cardinality(overlap) < cfg.overlap
                /\ deletes' = Append(deletes,
                                     [fileID |-> tok, id |-> fileListRef[index].id])
                /\ UNCHANGED <<fileList, fileListRef, transfers>>
           ELSE /\ RemoveLocal(tok)
                /\ UNCHANGED deletes
        /\ last' = Note(Event("removeFile", 0, tok, <<>>))
        /\ UNCHANGED <<cfg, now, step, fetched, reconcile, calls, remote,
                       confluenceLoading, uuids, trace, probe>>

DropAt(seq, d) == SubSeq(seq, 1, d - 1) \o SubSeq(seq, d + 1, Len(seq))

\* deleteFile resolved: the success notification, then the local removal
deleteFileResolved(d) ==
    /\ d \in DOMAIN deletes /\ ~Starved
    /\ remote' = [remote EXCEPT !.unused = @ \ {deletes[d].id}]
    /\ RemoveLocal(deletes[d].fileID)
    /\ deletes' = DropAt(deletes, d)
    /\ last' = Note(Event("deleteResolved", 0, deletes[d].fileID,
                          <<notify("success", "deleteSuccess", 0)>>))
    /\ UNCHANGED <<cfg, now, step, fetched, reconcile, calls,
                   confluenceLoading, uuids, trace, probe>>

\* deleteFile rejected: the catch block notifies the error and returns
deleteFileRejected(d) ==
    /\ d \in DOMAIN deletes /\ ~Starved
    /\ deletes' = DropAt(deletes, d)
    /\ last' = Note(Event("deleteRejected", 0, deletes[d].fileID,
                          <<notify("error", "deleteError", 0)>>))
    /\ UNCHANGED <<cfg, now, step, fetched, reconcile, fileList,
                   fileListRef, transfers, calls, remote,
                   confluenceLoading, uuids, trace, probe>>

\* ----------------------------------------------------------- reconciler
RECURSIVE Ascending(_)
\* the listing fetchUnusedFiles returns: the stored unused files, by id
Ascending(ids) ==
    IF ids = {} THEN <<>>
    ELSE LET m == CHOOSE x \in ids : \A y \in ids : x <= y
         IN  <<m>> \o Ascending(ids \ {m})

\* (mutant) the effect's condition without the one-shot flag
ShouldFetchAtStepOne == step = 1

\* if (step === 1 && !initialUnusedFilesFetched)
ShouldFetch == step = 1 /\ ~fetched

\* the effect on step / initialUnusedFilesFetched: fetchUnusedFilesData() is
\* started and the one-shot flag is set
fetchUnusedFilesEffect ==
    /\ ShouldFetch /\ ~Starved
    /\ reconcile' = "fetching"
    /\ fetched' = TRUE
    /\ last' = Note(Event("reconcileEffect", 0, NoTok, <<>>))
    /\ UNCHANGED <<cfg, now, step, fileList, fileListRef,
                   transfers, calls, deletes, remote, confluenceLoading,
                   uuids, trace, probe>>

\* unusedFiles.map(file => ({ fileID: file.id, file, progress: 100 }))
UnusedFileItems(unusedFiles) ==
    [i \in DOMAIN unusedFiles |->
        Item(RemoteToken(unusedFiles[i]), unusedFiles[i], 100, 0)]

\* (mutant) the updater without the filter on existingFileIds
MergeUnusedUnfiltered(prevFiles, unusedFileItems) == prevFiles \o unusedFileItems

\* the setFiles updater of fetchUnusedFilesData
MergeUnused(prevFiles, unusedFileItems) ==
    LET existingFileIds == Tokens(prevFiles)
        newFileItems == SelectSeq(unusedFileItems,
                                  LAMBDA item : item.fileID \notin existingFileIds)
    IN  prevFiles \o newFileItems

\* the Ledger fetchUnusedFilesData leaves when the listing is unusedFiles
Reconciled(prevFiles, unusedFiles) ==
    IF Len(unusedFiles) > 0
    THEN MergeUnused(prevFiles, UnusedFileItems(unusedFiles))
    ELSE prevFiles

\* the notification of fetchUnusedFilesData: the count is unusedFiles.length
ReconciledNotes(unusedFiles) ==
    IF Len(unusedFiles) > 0
    THEN <<notify("info", "unusedFiles.message", Len(unusedFiles))>>
    ELSE <<>>

\* fetchUnusedFilesData after `await fetchUnusedFiles()` resolved
fetchUnusedFilesResolved ==
    LET unusedFiles == Ascending(remote.unused)
    IN  /\ reconcile = "fetching" /\ ~Starved
        /\ reconcile' = "done"
        /\ fileList' = Reconciled(fileList, unusedFiles)
        /\ last' = Note(Event("reconciled", 0, NoTok,
                              ReconciledNotes(unusedFiles)))
        /\ UNCHANGED <<cfg, now, step, fetched, fileListRef,
                       transfers, calls, deletes, remote, confluenceLoading,
                       uuids, trace, probe>>

\* fetchUnusedFiles() rejected: the catch block logs
fetchUnusedFilesRejected ==
    /\ reconcile = "fetching" /\ ~Starved
    /\ reconcile' = "done"
    /\ last' = Note(Event("reconcileFailed", 0, NoTok, <<>>))
    /\ UNCHANGED <<cfg, now, step, fetched, fileList, fileListRef, transfers, calls, deletes, remote,
                   confluenceLoading, uuids, trace, probe>>

\* ----------------------------------------------------- external source
\* what the user has typed into the url field: nothing, a url without
\* pageId, a url with one
Urls == {"", "noPageId", "pageId=7"}
\* confluenceUrl.match(/pageId=(\d+)/): the captured digits, "" for no match
pageIdMatch(url) == IF url = "pageId=7" THEN "7" ELSE ""
\* the url of a pending conversion: the one of Urls that is not refused
SubmittedUrl == CHOOSE url \in Urls : pageIdMatch(url) # ""

\* handleConfluenceUrlSubmit up to its await: an empty url and a url with no
\* pageId are refused with a notification, another starts the conversion
handleConfluenceUrlSubmit(url) ==
    /\ Mounted /\ step = 1 /\ ~hideUpload /\ ~confluenceLoading
    /\ IF url = ""
       THEN /\ confluenceLoading' = FALSE
            /\ last' = Note(Event("confluenceRefused", 0, NoTok,
                                  <<notify("error", "emptyUrl", 0)>>))
       ELSE IF pageIdMatch(url) = ""
       THEN /\ confluenceLoading' = FALSE
            /\ last' = Note(Event("confluenceRefused", 0, NoTok,
                                  <<notify("error", "invalidUrl", 0)>>))
       ELSE /\ confluenceLoading' = TRUE
            /\ last' = Note(Event("confluenceSubmit", 0, NoTok, <<>>))
    /\ UNCHANGED <<cfg, now, step, fetched, reconcile, fileList, fileListRef,
                   transfers, calls, deletes, remote, uuids, trace, probe>>

\* A section of a conversion response, as textContent.split cuts it: the
\* name of a `<!-- Page: name -->` marker and the text that follows it, both
\* trimmed; the text by its length.
Section(name, content) == [name |-> name, content |-> content]
\* a marker without a name, a name without text, a named text, and a named
\* text longer than the default size ceiling
Sections ==
    {Section("", 1), Section("Intro", 0), Section("Intro", 1),
     Section("Intro", DefaultFileSizeLimit * MiB + 1)}
Responses == UNION {[1..n -> Sections] : n \in 0..MaxTransfers}

\* if (name && content) files.push({ name, content })
Pushed(section) == section.name # "" /\ section.content # 0

\* the File of a pushed section:
\* new File([file.content], `${file.name}.md`) with its fileMetadata
SectionFile(section, pageId) ==
    File("md", section.content,
         [upload_type |-> "confluence", confluence_page_id |-> pageId])

\* the conversion answered ok with the sections `sections`
confluenceResolved(sections) ==
    LET pageId == pageIdMatch(SubmittedUrl)
        files == SelectSeq(sections, Pushed)
        n == Len(files)
        newFiles == [k \in 1..n |-> SectionFile(files[k], pageId)]
        toks == [k \in 1..n |-> UuidToken(uuids + k)]
    IN  /\ confluenceLoading /\ ~Starved
        /\ Len(transfers) + n <= MaxTransfers
        /\ uuids' = uuids + n
        /\ Enqueue(newFiles, toks,
                   Event("confluenceImported", 0, NoTok,
                         <<notify("success", "imported", n)>>))
        /\ confluenceLoading' = FALSE
        /\ UNCHANGED <<cfg, now, step, fetched, reconcile, deletes, remote,
                       trace, probe>>

\* (mutant) the catch block without the finally block
confluenceRejectedNoFinally ==
    /\ confluenceLoading /\ ~Starved
    /\ last' = Note(Event("confluenceFailed", 0, NoTok,
                          <<notify("error", "convertFailed", 0)>>))
    /\ UNCHANGED <<cfg, now, step, fetched, reconcile, fileList, fileListRef,
                   transfers, calls, deletes, remote, confluenceLoading,
                   uuids, trace, probe>>

\* the conversion failed: response not ok, or fetch threw
confluenceRejected ==
    /\ confluenceLoading /\ ~Starved
    /\ confluenceLoading' = FALSE
    /\ last' = Note(Event("confluenceFailed", 0, NoTok,
                          <<notify("error", "convertFailed", 0)>>))
    /\ UNCHANGED <<cfg, now, step, fetched, reconcile, fileList, fileListRef,
                   transfers, calls, deletes, remote, uuids, trace, probe>>

\* ----------------------------------------------------------------- Next
Next ==
    \/ Render
    \/ \E selected \in Selections, t \in 1..MaxNow : fileChangeHandle(selected, t)
    \/ \E dropped \in Selections, t \in 1..MaxNow : handleDrop(dropped, t)
    \/ \E u \in DOMAIN transfers, loaded \in 1..ProgressTotal : onProgress(u, loaded)
    \/ \E u \in DOMAIN transfers : uploadThen(u)
    \/ \E u \in DOMAIN transfers : uploadCatch(u)
    \/ \E tok \in Removable : removeFile(tok)
    \/ \E d \in DOMAIN deletes : deleteFileResolved(d)
    \/ \E d \in DOMAIN deletes : deleteFileRejected(d)
    \/ nextStep
    \/ \E delta \in {-1, 1} : changeStep(delta)
    \/ fetchUnusedFilesEffect
    \/ fetchUnusedFilesResolved
    \/ fetchUnusedFilesRejected
    \/ \E url \in Urls : handleConfluenceUrlSubmit(url)
    \/ \E sections \in Responses : confluenceResolved(sections)
    \/ confluenceRejected

Spec == Init /\ [][Next]_vars

\* The same program with `last` recording the notifications of each step, in
\* a workspace without batch upload: supportBatchUpload is false, and
\* fileUploadConfig takes 1 for batch_count_limit and file_upload_limit.
TracedConfigs ==
    {[c EXCEPT !.supportBatchUpload = FALSE, !.batch_count_limit = 1,
               !.file_upload_limit = 1] : c \in Configs}
InitTraced == Start(TracedConfigs, TRUE, {NoProbe})
SpecTraced == InitTraced /\ [][Next]_vars

\* The program with a network that answers: every upload request started is
\* answered at last, by its `then` or by its `catch`. Nothing is assumed of
\* the user, the listing, the conversion or deleteFile. The configuration is
\* the one without batch upload, where an import of two sections makes two
\* batches.
Settle(u) == u \in DOMAIN transfers /\ (uploadThen(u) \/ uploadCatch(u))
Answered == \A u \in 1..MaxTransfers : WF_vars(Settle(u))
SpecFair == Start(TracedConfigs, FALSE, {NoProbe}) /\ [][Next]_vars /\ Answered

\* The program with a user who may click the delete icon of an entry again
\* while its deleteFile is pending (nothing disables the icon), in the
\* configuration without batch upload, notifications recorded.
RemovalConfigs == {[c EXCEPT !.overlap = MaxOverlap] : c \in TracedConfigs}
SpecRemoval == Start(RemovalConfigs, TRUE, {NoProbe}) /\ [][Next]_vars

\* The program with progress events that may arrive after the completion of
\* their request, in the configuration without batch upload.
LateProgressConfigs ==
    {[c EXCEPT !.lateProgress = TRUE] : c \in TracedConfigs}
SpecLateProgress ==
    Start(LateProgressConfigs, FALSE, {NoProbe}) /\ [][Next]_vars

\* The program in the configuration without batch upload, notifications
\* recorded, the candidates of the last selection or drop observed.
CandidatesProbe == [op |-> "candidates", arg |-> <<>>, done |-> TRUE, ret |-> <<>>]
SpecSelection == Start(TracedConfigs, TRUE, {CandidatesProbe}) /\ [][Next]_vars

\* The program where the server may configure batch_count_limit = 0 (the `??`
\* of fileUploadConfig keeps a 0), beside the configuration without batch
\* upload.
ZeroBatchConfigs ==
    TracedConfigs \cup {[c EXCEPT !.batch_count_limit = 0] : c \in Configs}
SpecZeroBatch == Start(ZeroBatchConfigs, FALSE, {NoProbe}) /\ [][Next]_vars

\* ------------------------------------------------- the validator alone
\* Calls of isValid: the extension in either case or mixed, or one no list
\* allows; the size below, at and above the default ceiling, and 20 MiB.
ValidatorFiles ==
    {File(ext, size, NoMetadata) :
        ext \in {"md", "MD", "Md", "pdf", "exe"},
        size \in {DefaultFileSizeLimit * MiB - 1, DefaultFileSizeLimit * MiB,
                  DefaultFileSizeLimit * MiB + 1, 20 * MiB}}
\* The configurations they meet: allowed_extensions as the server may send
\* them (lower case, upper case, none) and two size ceilings.
ValidatorConfigs ==
    {[c EXCEPT !.allowed_extensions = a, !.file_size_limit = l] :
        c \in TracedConfigs, a \in {{"md", "pdf"}, {"MD"}, {}},
        l \in {DefaultFileSizeLimit, 20}}
ValidatorProbes ==
    {[op |-> "isValid", arg |-> file, done |-> FALSE, ret |-> FALSE] :
        file \in ValidatorFiles}

InitValidator == Start(ValidatorConfigs, TRUE, ValidatorProbes)

\* isValid(file) is called: its diagnostics and the value it returns
isValidCall ==
    /\ probe.op = "isValid" /\ ~probe.done
    /\ probe' = [probe EXCEPT !.done = TRUE, !.ret = isValid(probe.arg)]
    /\ last' = isValidNotes(probe.arg)
    /\ UNCHANGED <<cfg, now, step, fetched, reconcile, fileList, fileListRef,
                   transfers, calls, deletes, remote, confluenceLoading,
                   uuids, trace>>

NextValidator == isValidCall
SpecValidator == InitValidator /\ [][NextValidator]_vars

\* ------------------------------------------------- the traversal alone
\* A FileSystemEntry: a file, a directory with its entries in the order its
\* reader returns them, or an entry that is neither.
FileEntry(name) == [isFile |-> TRUE, isDirectory |-> FALSE, name |-> name,
                    entries |-> <<>>]
DirectoryEntry(name, entries) ==
    [isFile |-> FALSE, isDirectory |-> TRUE, name |-> name, entries |-> entries]
OtherEntry(name) == [isFile |-> FALSE, isDirectory |-> FALSE, name |-> name,
                     entries |-> <<>>]

\* the entries of one directory: at most MaxChildren of the set, no two under
\* one name
Listings(set) ==
    {l \in UNION {[1..n -> set] : n \in 0..MaxChildren} :
        \A i, j \in DOMAIN l : i # j => l[i].name # l[j].name}

RECURSIVE Entries(_)
\* the entries with directories nested at most depth deep
Entries(depth) ==
    LET leaves == {FileEntry("a.md"), FileEntry("b.md"), OtherEntry("x")}
    IN  IF depth = 0 THEN leaves
        ELSE leaves \cup {DirectoryEntry(name, l) :
                              name \in {"d", "e"}, l \in Listings(Entries(depth - 1))}

RECURSIVE Flat(_)
\* files.flat()
Flat(lists) == IF lists = <<>> THEN <<>> ELSE Head(lists) \o Flat(Tail(lists))

\* (mutant) the reader is read once
readOnce(rest, entries, size) ==
    SubSeq(rest, 1, IF size < Len(rest) THEN size ELSE Len(rest))

RECURSIVE read(_, _, _)
\* read(): reader.readEntries hands over the next entries of the directory,
\* at most size of them; an empty result ends the loop with `entries`, any
\* other is pushed and read() runs again
read(rest, entries, size) ==
    LET results == SubSeq(rest, 1, IF size < Len(rest) THEN size ELSE Len(rest))
    IN  IF Len(results) = 0
        THEN entries
        ELSE read(SubSeq(rest, Len(results) + 1, Len(rest)),
                  entries \o results, size)

RECURSIVE traverseFileEntry(_, _, _)
\* traverseFileEntry(entry, prefix), the array its promise resolves with; a
\* string is the sequence of the names and separators it is built from
traverseFileEntry(entry, prefix, size) ==
    IF entry.isFile
    THEN <<[name |-> entry.name, relativePath |-> prefix \o <<entry.name>>]>>
    ELSE IF entry.isDirectory
    THEN LET entries == read(entry.entries, <<>>, size)
         IN  Flat([i \in DOMAIN entries |->
                      traverseFileEntry(entries[i],
                                        prefix \o <<entry.name, "/">>, size)])
    ELSE <<>>

\* one dropped entry, and how many entries readEntries returns at a time
TraverseProbes ==
    {[op |-> "traverseFileEntry", arg |-> [entry |-> entry, size |-> size],
      done |-> FALSE, ret |-> <<>>] :
        entry \in Entries(MaxDepth), size \in 1..MaxRead}

InitTraverse == Start(TracedConfigs, FALSE, TraverseProbes)

\* traverseFileEntry(entry) is called, as handleDrop calls it, and resolves
traverseFileEntryCall ==
    /\ probe.op = "traverseFileEntry" /\ ~probe.done
    /\ probe' = [probe EXCEPT !.done = TRUE,
                              !.ret = traverseFileEntry(probe.arg.entry, <<>>,
                                                        probe.arg.size)]
    /\ UNCHANGED <<cfg, now, step, fetched, reconcile, fileList, fileListRef,
                   transfers, calls, deletes, remote, confluenceLoading,
                   uuids, trace, last>>

NextTraverse == traverseFileEntryCall
SpecTraverse == InitTraverse /\ [][NextTraverse]_vars

\* =============================================================== claims
\* the batch of its call a transfer belongs to: files.slice(start, end) for
\* start = 0, B, 2B, ...
BatchIndex(u) ==
    (u - calls[transfers[u].call].first - 1) \div cfg.batch_count_limit
SameCall(u, v) == transfers[u].call = transfers[v].call
\* no other transfer carries the token of transfer u
OwnToken(u) ==
    \A v \in DOMAIN transfers : v # u => transfers[v].fileID # transfers[u].fileID

\* C1: the number of fileUpload calls started and not yet settled is at most
\* batch_count_limit, over all submissions together.
C1_InFlightWithinBatchLimit ==
    Cardinality(InFlight) <= cfg.batch_count_limit

\* C2: within one uploadMultipleFiles call, an item of a later batch has been
\* dispatched only when every item of every earlier batch has settled.
C2_BatchesInOrder ==
    \A u, v \in DOMAIN transfers :
        (SameCall(u, v) /\ BatchIndex(u) < BatchIndex(v)
            /\ transfers[v].status # "queued")
        => Settled(transfers[u])

\* C2 witness: an item of a second batch is in flight.
C2_SecondBatchInFlight ==
    \E v \in DOMAIN transfers :
        BatchIndex(v) >= 1 /\ transfers[v].status = "inflight"

\* C3: once removeFile has removed a token's entry, a progress, success or
\* failure callback of that token's transfer leaves the Ledger as it was
\* (for a token no other transfer carries; steps in which the batch loop
\* dispatches further items aside).
C3_LateUpdatesDropped ==
    [][\A u \in DOMAIN transfers :
          (/\ transfers[u].removed /\ OwnToken(u)
           /\ \/ \E loaded \in 1..ProgressTotal : onProgress(u, loaded)
              \/ uploadThen(u)
              \/ uploadCatch(u)
           /\ Dispatched(transfers, transfers') = {})
          => fileList' = fileList]_vars

\* C4: when deleteFile fails, the entry is removed from the Ledger all the
\* same.
C4_RemovedThoughDeleteFailed ==
    [][\A d \in DOMAIN deletes :
          deleteFileRejected(d) => deletes[d].fileID \notin Tokens(fileList')]_vars

\* C5: every Ledger entry with progress 100 carries a remote identifier.
C5_HundredIsStored ==
    \A i \in DOMAIN fileList :
        fileList[i].progress = 100 => fileList[i].id # 0

\* C6: an item whose transfer succeeded and that was not removed has, in
\* every later state, its entry at progress 100 with the remote payload.
C6_SucceededStaysStored ==
    \A u \in DOMAIN transfers :
        (transfers[u].status = "done" /\ ~transfers[u].removed /\ OwnToken(u))
        => \E i \in DOMAIN fileList :
               /\ fileList[i].fileID = transfers[u].fileID
               /\ fileList[i].progress = 100
               /\ fileList[i].id = transfers[u].id

\* C7: an item whose transfer failed and that was not removed has, in every
\* later state, its entry at progress -2.
C7_FailedStaysFailed ==
    \A u \in DOMAIN transfers :
        (transfers[u].status = "failed" /\ ~transfers[u].removed /\ OwnToken(u))
        => \E i \in DOMAIN fileList :
               /\ fileList[i].fileID = transfers[u].fileID
               /\ fileList[i].progress = -2

\* C8: no two Ledger entries carry the same token.
C8_TokensUnique ==
    \A i, j \in DOMAIN fileList :
        i # j => fileList[i].fileID # fileList[j].fileID

\* C9: a token leaves the Ledger only in a step of removeFile for it.
C9_OnlyRemovalDestroys ==
    [][\A tok \in Tokens(fileList) :
          tok \notin Tokens(fileList')
          => \/ removeFile(tok)
             \/ \E d \in DOMAIN deletes :
                    deletes[d].fileID = tok /\ deleteFileResolved(d)]_vars

\* C10: after the Reconciler's merge no remote identifier of the listing is
\* referenced by two Ledger entries.
C10_MergeWithoutDuplicates ==
    [][fetchUnusedFilesResolved
       => \A id \in remote.unused :
              Cardinality({i \in DOMAIN fileList' : fileList'[i].id = id}) <= 1]_vars

\* C11: a second invocation of fetchUnusedFilesData against the listing the
\* first one merged appends no entry: the Ledger the first invocation leaves
\* is the Ledger the second one leaves.
C11_SecondReconcileAppendsNothing ==
    [][fetchUnusedFilesResolved
       => Reconciled(fileList', Ascending(remote.unused)) = fileList']_vars

\* C11 witness: the Reconciler has merged an entry of the listing.
C11_MergedOnce ==
    /\ reconcile = "done"
    /\ \E i \in DOMAIN fileList : fileList[i].fileID.kind = "remote"

NotPresentLocally ==
    {id \in remote.unused : \A i \in DOMAIN fileList : fileList[i].id # id}

\* C13: when the Reconciler finds k >= 1 listed files that no Ledger entry
\* references, the Ledger it leaves is the old one followed by exactly k
\* entries, all with progress 100, and it raises one notification, whose
\* count is k.
C13_MergedCountNotified ==
    [][(fetchUnusedFilesResolved /\ NotPresentLocally # {})
       => LET k == Cardinality(NotPresentLocally)
          IN  /\ Len(fileList') = Len(fileList) + k
              /\ SubSeq(fileList', 1, Len(fileList)) = fileList
              /\ \A i \in (Len(fileList) + 1)..Len(fileList') :
                     fileList'[i].progress = 100
              /\ Len(last') = 1
              /\ last'[1].count = k]_vars

\* C14: an item enters the Ledger under a client token only when isValid
\* accepted its File: a selection or a drop appends at most as many entries
\* as it holds valid files, and every section a conversion turns into an
\* entry is a File that isValid accepts.
C14_OnlyValidatedEnter ==
    [][/\ \A selected \in Selections, t \in 1..MaxNow :
             (fileChangeHandle(selected, t) \/ handleDrop(selected, t))
             => Len(fileList') - Len(fileListRef)
                    <= Len(SelectSeq(selected, isValid))
       /\ \A sections \in Responses :
             confluenceResolved(sections)
             => \A k \in DOMAIN sections :
                    Pushed(sections[k])
                    => isValid(SectionFile(sections[k],
                                           pageIdMatch(SubmittedUrl)))]_vars

\* the extension is in the allow-list when case is ignored on both sides
AllowedIgnoringCase(file) ==
    \E a \in cfg.allowed_extensions : toLowerCase(a) = toLowerCase(file.ext)
WithinCeiling(file) == file.size <= cfg.file_size_limit * MiB
\* the number of the two checks a file fails
FailedChecks(file) ==
    (IF AllowedIgnoringCase(file) THEN 0 ELSE 1)
        + (IF WithinCeiling(file) THEN 0 ELSE 1)

\* C15: isValid(file) returns true exactly when the extension of the file is
\* in the configured allow-list under case-insensitive comparison and its
\* size is at most file_size_limit MiB; it raises as many error diagnostics
\* as checks failed.
C15_ValidIffAllowedAndWithinCeiling ==
    (probe.op = "isValid" /\ probe.done) =>
        /\ probe.ret = (AllowedIgnoringCase(probe.arg) /\ WithinCeiling(probe.arg))
        /\ Len(last) = FailedChecks(probe.arg)
        /\ \A i \in DOMAIN last : last[i].type = "error"

\* C16: when the conversion call fails, no item is appended to the Ledger, no
\* transfer is dispatched, exactly one error notification is raised and the
\* loading flag is reset to false.
C16_ConversionFailsAsUnit ==
    [][confluenceRejected =>
          /\ fileList' = fileList
          /\ fileListRef' = fileListRef
          /\ Dispatched(transfers, transfers') = {}
          /\ DOMAIN transfers' = DOMAIN transfers
          /\ Len(last') = 1 /\ last'[1].type = "error"
          /\ ~confluenceLoading']_vars

\* a conversion has failed while the Ledger held an entry
C16_ConversionFailed ==
    /\ last = <<notify("error", "convertFailed", 0)>>
    /\ ~confluenceLoading
    /\ fileList # <<>>

\* the sections of a response that carry a name
NamedSections(sections) == SelectSeq(sections, LAMBDA section : section.name # "")

\* C17: when the conversion succeeds with n named sections, exactly n entries
\* are appended to the Ledger, in the order of the sections, each with a
\* fresh token, with progress -1 (0 once its upload was started in the same
\* step) and with metadata that records the same originating reference and a
\* section identifier that differs from section to section; for n = 0 nothing
\* is appended and no error is raised.
C17_SectionsBecomeEntries ==
    [][\A sections \in Responses : confluenceResolved(sections) =>
          LET n == Len(NamedSections(sections))
              old == Len(fileListRef)
              first == Len(transfers)
              known == Tokens(fileList) \cup Tokens(fileListRef)
                           \cup {transfers[u].fileID : u \in DOMAIN transfers}
          IN  /\ Len(fileList') = old + n
              /\ SubSeq(fileList', 1, old) = fileListRef
              /\ \A k \in 1..n :
                     /\ fileList'[old + k].fileID = transfers'[first + k].fileID
                     /\ fileList'[old + k].fileID \notin known
                     /\ fileList'[old + k].progress =
                            IF transfers'[first + k].status = "queued"
                            THEN -1 ELSE 0
                     /\ transfers'[first + k].fileMetadata.confluence_page_id
                            = pageIdMatch(SubmittedUrl)
              /\ \A j, k \in 1..n :
                     j # k => /\ fileList'[old + j].fileID # fileList'[old + k].fileID
                              /\ transfers'[first + j].fileMetadata
                                     # transfers'[first + k].fileMetadata
              /\ \A i \in DOMAIN last' : last'[i].type # "error"]_vars

\* transfer v is of an earlier batch of the call of transfer u
EarlierBatch(v, u) == SameCall(u, v) /\ BatchIndex(v) < BatchIndex(u)
SameBatch(u, v) == SameCall(u, v) /\ BatchIndex(v) = BatchIndex(u)
\* transfer u waits for its batch while transfer v of an earlier batch of its
\* call has failed
WaitsBehindFailed(u, v) ==
    IF u \in DOMAIN transfers /\ v \in DOMAIN transfers
    THEN /\ EarlierBatch(v, u)
         /\ transfers[v].status = "failed"
         /\ transfers[u].status = "queued"
    ELSE FALSE
\* transfer u is in flight while transfer v of its batch has failed
InFlightBesideFailed(u, v) ==
    IF u \in DOMAIN transfers /\ v \in DOMAIN transfers
    THEN /\ u # v /\ SameBatch(u, v)
         /\ transfers[v].status = "failed"
         /\ transfers[u].status = "inflight"
    ELSE FALSE
HasBeenDispatched(u) ==
    IF u \in DOMAIN transfers THEN transfers[u].status # "queued" ELSE FALSE
HasSettled(u) ==
    IF u \in DOMAIN transfers THEN Settled(transfers[u]) ELSE FALSE

\* C18: a failing item does not block later batches and does not cancel its
\* siblings: when the network answers every request, an item waiting in a
\* later batch of the call of a failed item is eventually dispatched, and an
\* item in flight in the batch of a failed item eventually settles.
C18_FailureBlocksNothing ==
    \A u, v \in 1..MaxTransfers :
        /\ WaitsBehindFailed(u, v) ~> HasBeenDispatched(u)
        /\ InFlightBesideFailed(u, v) ~> HasSettled(u)

RECURSIVE LeafChains(_)
\* the leaf files reachable from an entry, each by the chain of names that
\* leads to it from the entry
LeafChains(entry) ==
    IF entry.isFile THEN {<<entry.name>>}
    ELSE IF entry.isDirectory
    THEN {<<entry.name>> \o chain :
             chain \in UNION {LeafChains(entry.entries[i]) :
                                 i \in DOMAIN entry.entries}}
    ELSE {}
RECURSIVE Joined(_)
\* the names of a chain separated by '/'
Joined(chain) ==
    IF Len(chain) = 1 THEN chain
    ELSE <<Head(chain), "/">> \o Joined(Tail(chain))

\* C19: traverseFileEntry returns every leaf file reachable from the dropped
\* entry exactly once and nothing else (an empty directory contributes no
\* item), and the relativePath of a leaf is the chain of directory names
\* from the dropped entry, separated by '/', followed by the file name.
C19_EveryLeafOnce ==
    (probe.op = "traverseFileEntry" /\ probe.done) =>
        LET chains == LeafChains(probe.arg.entry)
        IN  /\ Len(probe.ret) = Cardinality(chains)
            /\ \A chain \in chains :
                   Cardinality({i \in DOMAIN probe.ret :
                       /\ probe.ret[i].relativePath = Joined(chain)
                       /\ probe.ret[i].name = chain[Len(chain)]}) = 1

\* a directory that holds an empty directory and a directory with a file
\* has been traversed
C19_NestedTraversed ==
    /\ probe.op = "traverseFileEntry" /\ probe.done
    /\ probe.arg.entry = DirectoryEntry("d", <<DirectoryEntry("e", <<>>),
                              DirectoryEntry("d", <<FileEntry("a.md")>>)>>)
    /\ probe.ret = <<[name |-> "a.md",
                      relativePath |-> <<"d", "/", "d", "/", "a.md">>]>>

\* an earlier removeFile has removed the entry of token tok
RemovedBefore(tok) ==
    /\ tok \notin Tokens(fileList)
    /\ \E u \in DOMAIN transfers :
           transfers[u].fileID = tok /\ transfers[u].removed

\* C20: removal is idempotent: a removeFile for a token whose entry an earlier
\* removeFile has removed, be it invoked after that one or pending since
\* before it completed, leaves the Ledger as the one removal left it, and a
\* removeFile invoked for a token absent from the Ledger issues no remote
\* delete.
C20_RemovalIdempotent ==
    [][/\ \A d \in DOMAIN deletes :
              (RemovedBefore(deletes[d].fileID) /\ deleteFileResolved(d))
                  => fileList' = fileList
       /\ \A tok \in Removable :
              (tok \notin Tokens(fileList) /\ removeFile(tok))
                  => fileList' = fileList /\ deletes' = deletes]_vars

\* the chunk of its call that arrival order and the batch size assign to
\* transfer u: 0 for files[0..B), 1 for files[B..2B), ...
ChunkOf(trs, cls, u) ==
    (u - cls[trs[u].call].first - 1) \div cfg.batch_count_limit
\* the batch loop of the call of transfer u has ended
LoopEnded(trs, cls, u) == cls[trs[u].call].pc \in {"done", "thrown"}

\* C21: uploadMultipleFiles dispatches the consecutive chunks of its input:
\* the items a step dispatches are one whole chunk of their call, as arrival
\* order and the batch size assign it, whatever has happened to the Ledger
\* since; no item is dispatched again once dispatched; and when the call has
\* ended every item of its input has been dispatched.
C21_ChunksDispatchedOnce ==
    [][/\ \A u \in Dispatched(transfers, transfers') :
              \A v \in DOMAIN transfers' :
                  transfers'[v].call = transfers'[u].call =>
                      (v \in Dispatched(transfers, transfers')
                          <=> ChunkOf(transfers', calls', v)
                                  = ChunkOf(transfers', calls', u))
       /\ \A u \in DOMAIN transfers :
              /\ transfers'[u].call = transfers[u].call
              /\ ChunkOf(transfers', calls', u) = ChunkOf(transfers, calls, u)
              /\ transfers[u].status = "inflight"
                     => transfers'[u].status \in {"inflight", "done", "failed"}
              /\ Settled(transfers[u])
                     => transfers'[u].status = transfers[u].status
       /\ \A u \in DOMAIN transfers' :
              LoopEnded(transfers', calls', u)
                  => transfers'[u].status # "queued"]_vars

\* the entry of token tok has received its terminal update
TerminalEntry(tok) ==
    \E i \in DOMAIN fileList :
        fileList[i].fileID = tok /\ fileList[i].progress \in {100, -2}

\* C22: a progress callback for a token whose entry has already received its
\* terminal update (progress 100 or -2) is ignored: every entry of that token
\* keeps its progress and its payload.
C22_LateProgressIgnored ==
    [][\A u \in DOMAIN transfers, loaded \in 1..ProgressTotal :
          (/\ Settled(transfers[u]) /\ TerminalEntry(transfers[u].fileID)
           /\ onProgress(u, loaded))
          => /\ Len(fileList') = Len(fileList)
             /\ \A i \in DOMAIN fileList :
                    fileList[i].fileID = transfers[u].fileID
                    => /\ fileList'[i].progress = fileList[i].progress
                       /\ fileList'[i].id = fileList[i].id]_vars

\* C23: an update addressed by token (a progress tick, a success or a failure
\* routed through updateFile) changes only the entries of that token: the
\* Ledger keeps its length and its order, and every other entry keeps its
\* progress and its payload (steps in which the batch loop goes on to
\* dispatch further items aside).
C23_UpdateTouchesOnlyItsEntry ==
    [][\A u \in DOMAIN transfers :
          (/\ \/ \E loaded \in 1..ProgressTotal : onProgress(u, loaded)
              \/ uploadThen(u)
              \/ uploadCatch(u)
           /\ Dispatched(transfers, transfers') = {})
          => /\ Len(fileList') = Len(fileList)
             /\ \A i \in DOMAIN fileList :
                    /\ fileList'[i].fileID = fileList[i].fileID
                    /\ fileList[i].fileID # transfers[u].fileID
                       => /\ fileList'[i].progress = fileList[i].progress
                          /\ fileList'[i].id = fileList[i].id]_vars

\* C24: uploadMultipleFiles returns once its transfers have settled, for
\* every batch size the configuration supplies: each iteration of the loop
\* strictly advances the start index, so a loop that has not ended waits for
\* a batch files[start..end) with start < end.
C24_LoopAdvances ==
    \A c \in DOMAIN calls :
        calls[c].pc \notin {"done", "thrown"}
            => /\ calls[c].pc = "await"
               /\ calls[c].start < calls[c].end
               /\ calls[c].end <= calls[c].length

\* the remote identifier of the entry of token tok (0: it carries none)
RemoteIdOf(tok) == fileList[FindIndex(fileList, tok)].id

\* C25: removeFile issues a remote delete exactly when the entry it removes
\* carries a remote identifier. For an entry without one (queued, in
\* transfer or failed) the step issues no call and the entry is gone from
\* the Ledger after it; for a stored entry the step issues one deleteFile
\* call, for that identifier, and the entry stays until the call resolves.
\* No other step issues a delete call.
C25_RemoteDeleteIffStored ==
    [][/\ \A tok \in Tokens(fileList) :
              removeFile(tok) =>
                  IF RemoteIdOf(tok) = 0
                  THEN /\ deletes' = deletes
                       /\ fileList' = FilterOut(fileList, tok)
                  ELSE /\ deletes' = Append(deletes,
                                            [fileID |-> tok,
                                             id |-> RemoteIdOf(tok)])
                       /\ fileList' = fileList
       /\ Len(deletes') > Len(deletes) =>
              \E tok \in Tokens(fileList) :
                  removeFile(tok) /\ RemoteIdOf(tok) # 0
       /\ \A d \in DOMAIN deletes :
              deleteFileResolved(d) =>
                  deletes[d].fileID \notin Tokens(fileList')]_vars

\* C25 witness: a deleteFile call is pending for a stored entry, which is
\* still in the Ledger, while an item removed before its transfer ended is
\* gone from it.
C25_BothRemovalsSeen ==
    /\ \E d \in DOMAIN deletes :
           /\ deletes[d].fileID \in Tokens(fileList)
           /\ RemoteIdOf(deletes[d].fileID) = deletes[d].id
           /\ deletes[d].id # 0
    /\ \E u \in DOMAIN transfers :
           /\ transfers[u].removed
           /\ transfers[u].status = "inflight"
           /\ transfers[u].fileID \notin Tokens(fileList)

\* the items a selection or a drop submits to initialUpload
Submitted(selected) ==
    SelectSeq(Slice(selected, cfg.batch_count_limit), isValid)
\* the error notifications about the number of files among notes
FilesNumberErrors(notes) ==
    SelectSeq(notes, LAMBDA n : n.type = "error"
                                /\ n.message = "validation.filesNumber")

\* C26: outside the CE edition the Ledger never holds more than
\* file_upload_limit entries, whatever selections, drops, imports and
\* reconciliation merges have happened; and a selection or drop whose valid
\* items would take it over the ceiling is rejected as a whole: one error
\* notification about the number of files, the Ledger unchanged, no transfer
\* created or dispatched.
C26_CeilingKept ==
    [][~cfg.IS_CE_EDITION =>
          /\ Len(fileList') <= cfg.file_upload_limit
          /\ \A selected \in Selections, t \in 1..MaxNow :
                 ( /\ fileChangeHandle(selected, t) \/ handleDrop(selected, t)
                   /\ Len(Submitted(selected)) > 0
                   /\ Len(Submitted(selected)) + Len(fileList)
                          > cfg.file_upload_limit )
                     => /\ fileList' = fileList
                        /\ transfers' = transfers
                        /\ Dispatched(transfers, transfers') = {}
                        /\ Len(FilesNumberErrors(last')) = 1]_vars

\* files.slice(0, 1) without batch upload, then
\* files.slice(0, batch_count_limit): the candidates that reach validation
Cut(candidates) ==
    Slice(IF cfg.supportBatchUpload THEN candidates ELSE Slice(candidates, 1),
          cfg.batch_count_limit)
\* the notifications among notes that validation raises
Diagnostics(notes) ==
    SelectSeq(notes, LAMBDA n : n.message # "validation.filesNumber")

\* C27: one selection or drop admits at most batch_count_limit items (at most
\* 1 without batch upload): the candidates are cut to the first
\* batch_count_limit before validation, the items submitted are the valid ones
\* among those (all of them enter the Ledger, or none when the ceiling on the
\* total rejects the submission), and the diagnostics raised are those of the
\* candidates within the cut: none for a candidate beyond it.
C27_CutBeforeValidation ==
    [][\A selected \in Selections, t \in 1..MaxNow :
          (fileChangeHandle(selected, t) \/ handleDrop(selected, t)) =>
              LET valid == SelectSeq(Cut(selected), isValid)
                  admitted == Len(fileList') - Len(fileList)
              IN  /\ admitted <= cfg.batch_count_limit
                  /\ ~cfg.supportBatchUpload => admitted <= 1
                  /\ admitted = IF Len(valid) + Len(fileList)
                                       > cfg.file_upload_limit
                                    /\ ~cfg.IS_CE_EDITION
                                THEN 0 ELSE Len(valid)
                  /\ Len(transfers') - Len(transfers) = admitted
                  /\ Diagnostics(last') = FilterNotes(Cut(selected))]_vars

\* C27 witness: the last selection or drop offered more candidates than the
\* cut keeps, an invalid one beyond it; the first candidate has entered the
\* Ledger and no notification was raised.
C27_CandidateBeyondCutDropped ==
    /\ probe.op = "candidates"
    /\ Len(probe.arg) > cfg.batch_count_limit
    /\ isValid(probe.arg[1])
    /\ ~isValid(probe.arg[Len(probe.arg)])
    /\ Len(fileList) = 1
    /\ fileList[1].progress \in {-1, 0}
    /\ last = <<>>

====
